---- MODULE Spec2Model ----
(***************************************************************************)
(* Model of the farmOS client facade (farmOS/__init__.py): construction    *)
(* (config loading, profile resolution, insecure-transport flag, hostname  *)
(* validation, token reconstruction and normalisation), save_token and     *)
(* the profile management methods.                                         *)
(*                                                                         *)
(* Strings that the code takes apart (hostnames) are sequences of atoms:   *)
(* an atom is one delimiter character or one run of scheme characters.     *)
(* Other strings are TLA+ strings.  A config section is a function whose   *)
(* DOMAIN is the set of keys it holds; the store is a function from        *)
(* section names (always including DEFAULT) to sections.                   *)
(***************************************************************************)
EXTENDS Integers, Sequences, FiniteSets, TLC

VARIABLES
    environ,   \* os.environ has OAUTHLIB_INSECURE_TRANSPORT = '1'
    file,      \* the config_file path on disk: [exists, content]
    store,     \* the ClientConfig object (self.config / the caller's config)
    facade,    \* the fields of the live farmOS object
    pool,      \* the argument values the callers of this run draw from
    last       \* the last call: its arguments and how it returned

vars == <<environ, file, store, facade, pool, last>>

----------------------------------------------------------------------------
(* Bounds *)

MaxTime == 2          \* timestamps (now, expires_at) range over 0..MaxTime

----------------------------------------------------------------------------
(* Python values *)

None == "None"
NonStr == "<42>"      \* stands for an argument that is not a str
Empty == <<>>         \* the empty string / empty dict

Times == 0..MaxTime

\* str(n) and float(s) for the numbers the model uses
str(n) == ToString(n)
float(s) == CHOOSE n \in (0 - MaxTime - 1)..(MaxTime + 1) : ToString(n) = s

----------------------------------------------------------------------------
(* urllib.parse on atom sequences *)

Delims == {":", "/", "?", "#", ";"}
\* atoms that start with an ASCII letter
AlphaLed(a) == a \notin Delims /\ a # "80"
Lower(a) == IF a = "HTTP" THEN "http" ELSE a
LowerSeq(s) == [i \in 1..Len(s) |-> Lower(s[i])]

\* s.find(c, start): first index >= start holding c, 0 when there is none
Find(s, c, start) ==
    IF \E i \in start..Len(s) : s[i] = c
    THEN CHOOSE i \in start..Len(s) : s[i] = c /\ \A j \in start..(i - 1) : s[j] # c
    ELSE 0
\* s.rfind(c)
RFind(s, c) ==
    IF \E i \in 1..Len(s) : s[i] = c
    THEN CHOOSE i \in 1..Len(s) : s[i] = c /\ \A j \in (i + 1)..Len(s) : s[j] # c
    ELSE 0
Contains(s, c) == \E i \in 1..Len(s) : s[i] = c
From(s, i) == SubSeq(s, i, Len(s))

uses_params == {Empty, <<"ftp">>, <<"http">>, <<"https">>}
uses_netloc == {Empty, <<"ftp">>, <<"http">>, <<"https">>}

\* _splitnetloc(url, 2): the network location ends at the first of / ? #
splitnetloc(url) ==
    LET ends == {i \in 3..Len(url) : url[i] \in {"/", "?", "#"}}
        delim == IF ends = {} THEN Len(url) + 1
                 ELSE CHOOSE i \in ends : \A j \in ends : i <= j
    IN  [netloc |-> SubSeq(url, 3, delim - 1), rest |-> From(url, delim)]

\* the scheme: what precedes the first ':' when that is a run of scheme
\* characters that starts with a letter
SplitScheme(url) ==
    LET i == Find(url, ":", 1)
    IN  IF i > 1 /\ AlphaLed(url[1]) /\ \A j \in 1..(i - 1) : url[j] \notin Delims
        THEN [scheme |-> LowerSeq(SubSeq(url, 1, i - 1)), rest |-> From(url, i + 1)]
        ELSE [scheme |-> Empty, rest |-> url]

\* the network location: what follows a leading '//'
SplitNetloc(url) ==
    IF Len(url) >= 2 /\ url[1] = "/" /\ url[2] = "/"
    THEN splitnetloc(url)
    ELSE [netloc |-> Empty, rest |-> url]

\* url.split(c, 1) when c occurs in url
SplitAt(url, c) ==
    LET i == Find(url, c, 1)
    IN  IF i > 0 THEN [head |-> SubSeq(url, 1, i - 1), tail |-> From(url, i + 1)]
        ELSE [head |-> url, tail |-> Empty]

urlsplit(url) ==
    LET s == SplitScheme(url)
        n == SplitNetloc(s.rest)
        f == SplitAt(n.rest, "#")
        q == SplitAt(f.head, "?")
    IN  [scheme |-> s.scheme, netloc |-> n.netloc, path |-> q.head,
         query |-> q.tail, fragment |-> f.tail]

splitparams(url) ==
    LET i == IF Contains(url, "/") THEN Find(url, ";", RFind(url, "/"))
             ELSE Find(url, ";", 1)
    IN  IF i = 0 THEN [path |-> url, params |-> Empty]
        ELSE [path |-> SubSeq(url, 1, i - 1), params |-> From(url, i + 1)]

urlparse(url) ==
    LET s == urlsplit(url)
        sp == IF s.scheme \in uses_params /\ Contains(s.path, ";")
              THEN splitparams(s.path)
              ELSE [path |-> s.path, params |-> Empty]
    IN  [scheme |-> s.scheme, netloc |-> s.netloc, path |-> sp.path,
         params |-> sp.params, query |-> s.query, fragment |-> s.fragment]

\* urlunsplit: '//' netloc and a path made absolute, when there is a netloc
UnsplitNetloc(scheme, netloc, url) ==
    IF netloc # Empty
       \/ (scheme # Empty /\ scheme \in uses_netloc
           /\ ~(Len(url) >= 2 /\ url[1] = "/" /\ url[2] = "/"))
    THEN <<"/", "/">> \o netloc
         \o (IF url # Empty /\ url[1] # "/" THEN <<"/">> ELSE Empty) \o url
    ELSE url

urlunparse(p) ==
    (IF p.scheme # Empty THEN p.scheme \o <<":">> ELSE Empty)
    \o UnsplitNetloc(p.scheme, p.netloc,
                     IF p.params # Empty THEN p.path \o <<";">> \o p.params
                     ELSE p.path)
    \o (IF p.query # Empty THEN <<"?">> \o p.query ELSE Empty)
    \o (IF p.fragment # Empty THEN <<"#">> \o p.fragment ELSE Empty)

----------------------------------------------------------------------------
(* Hostname validation of the constructor *)

valid_schemes == {<<"http">>, <<"https">>}

\* a default scheme that ignores development mode
default_scheme_https(development) == <<"https">>

default_scheme(development) == IF development THEN <<"http">> ELSE <<"https">>

\* the parse result after the default scheme was added
WithScheme(hostname, development) ==
    LET p == urlparse(hostname)
    IN  IF p.scheme = Empty THEN [p EXCEPT !.scheme = default_scheme(development)] ELSE p

\* the parse result after a path was taken as the network location
WithNetloc(p) ==
    IF p.netloc = Empty /\ p.path # Empty
    THEN [p EXCEPT !.netloc = p.path, !.path = Empty]
    ELSE p

\* the exception the checks raise on the parse result, "" when they raise none
ParsedError(p) ==
    IF p.scheme \notin valid_schemes THEN "Not a valid scheme."
    ELSE IF WithNetloc(p).netloc = Empty THEN "Invalid hostname. Must have netloc."
    ELSE IF WithNetloc(p).path # Empty \/ p.params # Empty \/ p.query # Empty
         THEN "Hostname cannot include path and query parameters."
    ELSE ""

\* the exception hostname validation raises, "" when it raises none
HostnameError(hostname, development) ==
    ParsedError(WithScheme(hostname, development))

NormalizeHostname(hostname, development) ==
    urlunparse(WithNetloc(WithScheme(hostname, development)))

----------------------------------------------------------------------------
(* ClientConfig: the section-structured key/value store *)

SectionNames == {"p1", "p2"}          \* profile names other than DEFAULT

\* a new ClientConfig(): only the DEFAULT section, holding the bundled defaults
NewClientConfig == ("DEFAULT" :> ("oauth_token_url" :> "oauth2/token"))

has_section(config, name) == name \in DOMAIN config /\ name # "DEFAULT"

add_section(config, name) == (name :> Empty) @@ config

\* key in config[section]: the section's own keys and those of DEFAULT
HasOption(config, section, key) ==
    key \in DOMAIN config[section] \/ key \in DOMAIN config["DEFAULT"]

\* config[section][key]: the section's value, else the DEFAULT value
Option(config, section, key) ==
    IF key \in DOMAIN config[section] THEN config[section][key]
    ELSE config["DEFAULT"][key]

\* config[section][key] = value: written to the named section only
SetOption(config, section, key, value) ==
    [config EXCEPT ![section] = (key :> value) @@ @]

BooleanStates == [t \in {"1", "yes", "true", "on"} |-> TRUE]
                 @@ [f \in {"0", "no", "false", "off"} |-> FALSE]

getboolean(config, section, key, fallback) ==
    IF HasOption(config, section, key)
    THEN BooleanStates[Option(config, section, key)]
    ELSE fallback

\* config.write(path): the whole store replaces the file
write(config) == [exists |-> TRUE, content |-> config]

\* config.read([...]): a file that exists is merged over the store, key by key
read(config, f) ==
    IF ~f.exists THEN config
    ELSE [s \in DOMAIN config \cup DOMAIN f.content |->
            IF s \notin DOMAIN f.content THEN config[s]
            ELSE IF s \notin DOMAIN config THEN f.content[s]
            ELSE f.content[s] @@ config[s]]

----------------------------------------------------------------------------
(* Profile management *)

isinstance_str(x) == x # NonStr /\ x # None

\* the exception _profile_exists raises, "" when it raises none
ProfileExistsError(profile_name) ==
    IF isinstance_str(profile_name) THEN "" ELSE "profile_name not a String."

profile_exists(config, profile_name) == has_section(config, profile_name)

\* a create_profile that recreates the section before it raises
create_profile_reset(config, profile_name) ==
    IF ProfileExistsError(profile_name) # ""
    THEN [raised |-> ProfileExistsError(profile_name), config |-> config]
    ELSE [raised |-> IF profile_exists(config, profile_name)
                     THEN "Profile already exists." ELSE "",
          config |-> add_section(config, profile_name)]

\* create_profile: [raised, config]
create_profile(config, profile_name) ==
    IF ProfileExistsError(profile_name) # ""
    THEN [raised |-> ProfileExistsError(profile_name), config |-> config]
    ELSE IF ~profile_exists(config, profile_name)
    THEN [raised |-> "", config |-> add_section(config, profile_name)]
    ELSE [raised |-> "Profile already exists.", config |-> config]

\* has_profile(profile_name) with an argument, and has_profile() without
has_profile_named(config, profile_name) == profile_exists(config, profile_name)
has_profile(f) == f.profile # None

\* get_profile_name(): the name, or the exception it raises
get_profile_name(f) ==
    IF has_profile(f) THEN [raised |-> "", name |-> f.profile_name]
    ELSE [raised |-> "No profile being used.", name |-> None]

\* a use_profile that creates the section but does not select it
use_profile_unselected(config, profile, pname, profile_name, create) ==
    IF ProfileExistsError(profile_name) # ""
    THEN [raised |-> ProfileExistsError(profile_name), config |-> config,
          profile |-> profile, profile_name |-> pname]
    ELSE IF profile_exists(config, profile_name)
    THEN [raised |-> "", config |-> config,
          profile |-> profile_name, profile_name |-> profile_name]
    ELSE IF create
    THEN [raised |-> "", config |-> create_profile(config, profile_name).config,
          profile |-> profile, profile_name |-> pname]
    ELSE [raised |-> "Profile does not exist.", config |-> config,
          profile |-> profile, profile_name |-> pname]

\* use_profile on fields (profile, profile_name):
\* [raised, config, profile, profile_name]
use_profile(config, profile, pname, profile_name, create) ==
    IF ProfileExistsError(profile_name) # ""
    THEN [raised |-> ProfileExistsError(profile_name), config |-> config,
          profile |-> profile, profile_name |-> pname]
    ELSE IF profile_exists(config, profile_name)
    THEN [raised |-> "", config |-> config,
          profile |-> profile_name, profile_name |-> profile_name]
    ELSE IF create
    THEN [raised |-> "", config |-> create_profile(config, profile_name).config,
          profile |-> profile_name, profile_name |-> profile_name]
    ELSE [raised |-> "Profile does not exist.", config |-> config,
          profile |-> profile, profile_name |-> pname]

----------------------------------------------------------------------------
(* Tokens *)

TokenKeys == {"access_token", "refresh_token", "expires_in", "token_type", "expires_at"}

\* the token the constructor rebuilds from the profile section
LoadToken(config, profile_name) ==
    LET keys == {k \in {"access_token", "refresh_token", "expires_at"} :
                    HasOption(config, profile_name, k)}
    IN  [k \in keys |-> Option(config, profile_name, k)]

\* a normalisation that clamps an expired token's lifetime to 0
NormalizeToken_clamped(token, loaded, now) ==
    IF "expires_at" \in DOMAIN token
    THEN [k \in (DOMAIN token \ {"expires_at"}) \cup {"expires_in"} |->
            IF k = "expires_in"
            THEN LET d == (IF loaded THEN float(token["expires_at"])
                           ELSE token["expires_at"]) - now
                 IN  IF d < 0 THEN 0 ELSE d
            ELSE token[k]]
    ELSE token

\* "Check the token expiration time": expires_at becomes expires_in.
\* A token loaded from the config holds expires_at as a str, which float()
\* parses; a token passed in holds a number.
NormalizeToken(token, loaded, now) ==
    IF "expires_at" \in DOMAIN token
    THEN [k \in (DOMAIN token \ {"expires_at"}) \cup {"expires_in"} |->
            IF k = "expires_in"
            THEN (IF loaded THEN float(token["expires_at"])
                  ELSE token["expires_at"]) - now
            ELSE token[k]]
    ELSE token

\* the value save_token stores for a token field
Stored(token, key) ==
    IF key \in {"expires_in", "expires_at"} THEN str(token[key]) ELSE token[key]

\* the section save_token writes to
SaveSection(f) == f.profile_name

\* a save_token that forgets the refresh token
SavedKeys_no_refresh(token) == DOMAIN token \cap (TokenKeys \ {"refresh_token"})

\* the token fields save_token copies
SavedKeys(token) == DOMAIN token \cap TokenKeys

\* the in-memory effect of save_token
SaveTokenConfig(config, f, token) ==
    IF has_profile(f)
    THEN [config EXCEPT ![SaveSection(f)] =
            [k \in SavedKeys(token) |-> Stored(token, k)] @@ @]
    ELSE config

\* a save_token that persists only when a profile is active
SaveTokenWrites_profile_only(f) == f.config_file # None /\ f.profile # None

\* whether save_token writes the file
SaveTokenWrites(f) == f.config_file # None

----------------------------------------------------------------------------
(* Argument values *)

ConfigPath == "farm.cfg"              \* the one config_file path callers pass

Hosts ==
    { <<"host">>,
      <<"host", "/", "path">>,
      <<"host", "?", "q">>,
      <<"host", ";", "p">>,
      <<"host", ":", "80">>,
      <<"http", ":", "/", "/", "host">>,
      <<"HTTP", ":", "/", "/", "host">>,
      <<"https", ":", "/", "/", "host", "/", "path">>,
      <<"https", ":", "/", "/", "host", "/">>,
      <<"https", ":", "/", "/", "host", "?", "q">>,
      <<"https", ":", "/", "/", "host", ";", "p">>,
      <<"https", ":", "/", "/">>,
      <<"ftp", ":", "/", "/", "host">> }

TokenA == [access_token |-> "a1", refresh_token |-> "r1"]
TokenB == [access_token |-> "a2", refresh_token |-> "r2", token_type |-> "Bearer",
           expires_in |-> 1]
TokenC(T) == [access_token |-> "a3", refresh_token |-> "r3", expires_in |-> 1,
              expires_at |-> T, scope |-> "user_access"]

Tokens == {TokenA, Empty} \cup {TokenC(T) : T \in Times}

NoFile == [exists |-> FALSE, content |-> NewClientConfig]
FileWith(config) == [exists |-> TRUE, content |-> config]

DevConfig == ("p1" :> ("development" :> "true")) @@ NewClientConfig
InsecureConfig ==
    ("p2" :> ("oauthlib_insecure_transport" :> "yes" @@ "development" :> "off"))
    @@ NewClientConfig
SavedConfig ==
    ("p1" :> ("access_token" :> "a0" @@ "expires_at" :> str(1))) @@ NewClientConfig

\* the hostname and token arguments: <<given, value>>, not given when None
Given(x) == <<TRUE, x>>
NotGiven == <<FALSE, Empty>>
HostArgs(hosts) == {Given(h) : h \in hosts} \cup {NotGiven}
TokenArgs(tokens) == {Given(t) : t \in tokens} \cup {NotGiven}

\* The runs are split by what the callers vary.  Each entry gives the
\* argument values of the run (pool), the ClientConfig the caller holds at the
\* start (stores) and what the config file holds at the start (files).
HostScenario ==
    [pool |-> [hosts |-> HostArgs(Hosts), names |-> {None, "p1"}, tokens |-> {},
               times |-> {0}, paths |-> {None}, provided |-> BOOLEAN,
               updaters |-> {"save_token"}],
     stores |-> {NewClientConfig, DevConfig}, files |-> {NoFile}]
ProfileScenario ==
    [pool |-> [hosts |-> {Given(<<"host">>)},
               names |-> {None, "p1", "p2", NonStr},
               tokens |-> {TokenB}, times |-> {0}, paths |-> {None},
               provided |-> BOOLEAN, updaters |-> {"save_token", "custom"}],
     stores |-> {NewClientConfig}, files |-> {NoFile}]
TokenScenario ==
    [pool |-> [hosts |-> {Given(<<"host">>)}, names |-> {"p1"},
               tokens |-> Tokens, times |-> Times,
               paths |-> {ConfigPath}, provided |-> BOOLEAN,
               updaters |-> {"save_token"}],
     stores |-> {NewClientConfig}, files |-> {NoFile, FileWith(SavedConfig)}]
NoProfileScenario ==
    [pool |-> [hosts |-> {Given(<<"host">>)}, names |-> {None},
               tokens |-> {TokenA, TokenC(0)}, times |-> {0},
               paths |-> {None, ConfigPath}, provided |-> BOOLEAN,
               updaters |-> {"save_token"}],
     stores |-> {NewClientConfig}, files |-> {NoFile, FileWith(SavedConfig)}]
TransportScenario ==
    [pool |-> [hosts |-> HostArgs({<<"host">>, <<"ftp", ":", "/", "/", "host">>}),
               names |-> {None, "p1", "p2"}, tokens |-> {},
               times |-> {0}, paths |-> {None, ConfigPath},
               provided |-> BOOLEAN, updaters |-> {"save_token"}],
     stores |-> {NewClientConfig},
     files |-> {FileWith(DevConfig), FileWith(InsecureConfig)}]

Scenarios == {HostScenario, ProfileScenario, TokenScenario, NoProfileScenario,
              TransportScenario}

----------------------------------------------------------------------------
(* State *)

NoSession == [hostname |-> Empty, has_token |-> FALSE, token |-> Empty,
              token_url |-> "", profile_name |-> None]

NoFacade == [alive |-> FALSE, config_file |-> None, profile |-> None,
             profile_name |-> "DEFAULT", development |-> FALSE,
             token_updater |-> "save_token", session |-> NoSession]

Call(op) == [op |-> op, raised |-> "", name |-> None, create |-> FALSE,
             host_given |-> FALSE, hostname |-> Empty,
             token_given |-> FALSE, token |-> Empty, now |-> 0,
             provided |-> FALSE, config_file |-> None,
             development |-> FALSE, insecure |-> FALSE,
             created |-> FALSE, wrote |-> FALSE]

Start(scenarios) ==
    /\ environ = FALSE
    /\ \E sc \in scenarios :
          /\ pool = sc.pool
          /\ store \in sc.stores
          /\ file \in sc.files
    /\ facade = NoFacade
    /\ last = Call("start")

Init == Start(Scenarios)

----------------------------------------------------------------------------
(* farmOS.__init__ *)

\* a constructor that relaxes transport security in development mode only
SetsInsecureTransport_dev_only(development, oauth_insecure_transport) ==
    development

\* whether the constructor sets OAUTHLIB_INSECURE_TRANSPORT
SetsInsecureTransport(development, oauth_insecure_transport) ==
    development \/ oauth_insecure_transport

\* the profile step of the constructor: [raised, config, profile, profile_name]
InitProfile(config, profile_name) ==
    IF profile_name # None
    THEN use_profile(config, None, "DEFAULT", profile_name, TRUE)
    ELSE [raised |-> "", config |-> config, profile |-> None,
          profile_name |-> "DEFAULT"]

\* "Load saved Authentication Profile from config": the client settings saved
SaveClient(config, section) ==
    SetOption(SetOption(config, section, "oauth_client_id", "farm"),
              section, "oauth_scope", "user_access")

\* the store the constructor works on, after config.read
InitConfig(provided, config_file) ==
    read(IF provided THEN store ELSE NewClientConfig,
         IF config_file # None THEN file ELSE NoFile)

\* the constructor raises: the caller's store keeps what was done to it
ConstructFails(call, error, config, env) ==
    /\ last' = [call EXCEPT !.raised = error]
    /\ store' = IF call.provided THEN config ELSE store
    /\ environ' = env
    /\ UNCHANGED <<facade, file, pool>>

\* the token the session gets: [has_token, token]
SessionToken(call, config, load) ==
    IF load
    THEN [has_token |-> TRUE,
          token |-> NormalizeToken(LoadToken(config, call.name), TRUE, call.now)]
    ELSE IF call.token_given
    THEN [has_token |-> TRUE,
          token |-> NormalizeToken(call.token, FALSE, call.now)]
    ELSE [has_token |-> FALSE, token |-> Empty]

\* from "Check if we have a token" to the end: the session is created
ConstructSession(call, up, config, hostname, load, token_updater) ==
    /\ last' = call
    /\ store' = config
    /\ facade' =
         [alive |-> TRUE, config_file |-> call.config_file,
          profile |-> up.profile, profile_name |-> up.profile_name,
          development |-> call.development, token_updater |-> token_updater,
          session |->
            [hostname |-> hostname,
             has_token |-> SessionToken(call, config, load).has_token,
             token |-> SessionToken(call, config, load).token,
             token_url |-> Option(config, up.profile_name, "oauth_token_url"),
             profile_name |-> up.profile_name]]
    /\ UNCHANGED <<file, pool>>

\* hostname validation and what follows it, the flags being read
ConstructHost(call, up, env, token_updater) ==
    LET herr == IF ~call.host_given
                THEN "No hostname provided and could not be loaded from config."
                ELSE HostnameError(call.hostname, call.development)
        hostname == NormalizeHostname(call.hostname, call.development)
        load == ~call.token_given /\ up.profile # None
    IN  IF herr # "" THEN ConstructFails(call, herr, up.config, env)
        ELSE /\ environ' = env
             /\ ConstructSession(
                    call, up,
                    IF load
                    THEN SaveClient(SetOption(up.config, up.profile_name,
                                              "hostname", hostname),
                                    up.profile_name)
                    ELSE SetOption(up.config, up.profile_name, "hostname", hostname),
                    hostname, load, token_updater)

\* the development and insecure-transport flags and what follows them
ConstructFlags(call, up, development, insecure, token_updater) ==
    ConstructHost([call EXCEPT !.development = development, !.insecure = insecure],
                  up,
                  environ \/ SetsInsecureTransport(development, insecure),
                  token_updater)

\* the profile step and what follows it
ConstructProfile(call, up, token_updater) ==
    IF up.raised # "" THEN ConstructFails(call, up.raised, up.config, environ)
    ELSE ConstructFlags(
             call, up,
             getboolean(up.config, up.profile_name, "development", FALSE),
             getboolean(up.config, up.profile_name,
                        "oauthlib_insecure_transport", FALSE),
             token_updater)

Construct(host, profile_name, token_arg, provided, config_file, token_updater, now) ==
    ConstructProfile(
        [Call("construct") EXCEPT
            !.name = profile_name, !.host_given = host[1], !.hostname = host[2],
            !.token_given = token_arg[1], !.token = token_arg[2], !.now = now,
            !.provided = provided, !.config_file = config_file],
        InitProfile(InitConfig(provided, config_file), profile_name),
        token_updater)

----------------------------------------------------------------------------
(* Methods of a constructed facade *)

CreateProfile(profile_name) ==
    /\ facade.alive
    /\ LET r == create_profile(store, profile_name)
       IN  /\ store' = r.config
           /\ last' = [Call("create_profile") EXCEPT
                          !.name = profile_name, !.raised = r.raised]
    /\ UNCHANGED <<environ, file, facade, pool>>

UseProfile(profile_name, create) ==
    /\ facade.alive
    /\ LET r == use_profile(store, facade.profile, facade.profile_name,
                            profile_name, create)
       IN  /\ store' = r.config
           /\ facade' = [facade EXCEPT !.profile = r.profile,
                                       !.profile_name = r.profile_name]
           /\ last' = [Call("use_profile") EXCEPT
                          !.name = profile_name, !.create = create,
                          !.created = (DOMAIN r.config # DOMAIN store),
                          !.raised = r.raised]
    /\ UNCHANGED <<environ, file, pool>>

\* the effect of self.save_token(token)
save_token(token, call) ==
    /\ store' = SaveTokenConfig(store, facade, token)
    /\ file' = IF SaveTokenWrites(facade) THEN write(store') ELSE file
    /\ last' = [call EXCEPT !.token_given = TRUE, !.token = token,
                            !.wrote = SaveTokenWrites(facade)]
    /\ UNCHANGED <<environ, facade, pool>>

\* a direct call of facade.save_token(token)
SaveToken(token) ==
    /\ facade.alive
    /\ save_token(token, Call("save_token"))

\* the session obtained a token (authorize or refresh) and calls token_updater
TokenUpdated(token) ==
    /\ facade.alive
    /\ IF facade.token_updater = "save_token"
       THEN save_token(token, Call("token_updater"))
       ELSE /\ last' = [Call("token_updater") EXCEPT
                           !.token_given = TRUE, !.token = token]
            /\ UNCHANGED <<environ, file, store, facade, pool>>

----------------------------------------------------------------------------

Next ==
    \/ \E host \in pool.hosts, profile_name \in pool.names,
          token \in TokenArgs(pool.tokens),
          provided \in pool.provided, config_file \in pool.paths,
          token_updater \in pool.updaters, now \in pool.times :
          Construct(host, profile_name, token, provided, config_file,
                    token_updater, now)
    \/ \E profile_name \in pool.names \ {None} : CreateProfile(profile_name)
    \/ \E profile_name \in pool.names \ {None}, create \in BOOLEAN :
          UseProfile(profile_name, create)
    \/ \E token \in pool.tokens : SaveToken(token)
    \/ \E token \in pool.tokens \ {Empty} : TokenUpdated(token)

Spec == Init /\ [][Next]_vars

----------------------------------------------------------------------------
(* Vocabulary of the properties *)

Constructed == last.op = "construct" /\ last.raised = ""

\* the step is facade.save_token(token), called directly or as token_updater
SaveTokenStep ==
    \/ last'.op = "save_token"
    \/ last'.op = "token_updater" /\ facade.token_updater = "save_token"
SavedToken ==
    \/ last.op = "save_token"
    \/ last.op = "token_updater" /\ facade.token_updater = "save_token"

\* the input is written scheme://rest
CarriesScheme(h) == Len(h) >= 4 /\ h[2] = ":" /\ h[3] = "/" /\ h[4] = "/"
\* the input has the form scheme:rest
NamesScheme(h) == Len(h) >= 2 /\ h[1] \notin Delims /\ h[2] = ":"
AfterScheme(h) == IF CarriesScheme(h) THEN From(h, 5) ELSE h
\* the input holds a path, query or parameter segment after the host
HasSegment(h) == \E i \in 1..Len(AfterScheme(h)) : AfterScheme(h)[i] \in {"/", "?", ";"}
ForeignScheme(h) == NamesScheme(h) /\ Lower(h[1]) \notin {"http", "https"}

\* name is the active profile, as the facade's queries report it
Active(name) ==
    /\ facade.alive
    /\ has_profile_named(store, name)
    /\ has_profile(facade)
    /\ get_profile_name(facade) = [raised |-> "", name |-> name]

----------------------------------------------------------------------------
(* C1: a facade constructed with profile P and the default token_updater    *)
(* writes every saved token into section P and changes no other section,   *)
(* whatever create_profile and use_profile calls came in between.          *)
C1_SaveTokenWritesConstructionProfile ==
    [][ (SaveTokenStep /\ facade.token_updater = "save_token"
         /\ facade.session.profile_name \in SectionNames)
        => LET P == facade.session.profile_name
               t == last'.token
           IN  /\ DOMAIN store' = DOMAIN store
               /\ \A s \in DOMAIN store \ {P} : store'[s] = store[s]
               /\ \A k \in DOMAIN t \cap TokenKeys :
                     k \in DOMAIN store'[P] /\ store'[P][k] = Stored(t, k) ]_vars

(* C2: construction fails for every hostname that holds a path, query or   *)
(* parameter segment, with or without a scheme, and for every hostname     *)
(* whose scheme is not http or https.                                      *)
C2_RejectsSegmentsAndForeignSchemes ==
    (last.op = "construct" /\ last.host_given
     /\ (HasSegment(last.hostname) \/ ForeignScheme(last.hostname)))
    => last.raised # ""

(* C3: after a successful construction the session's hostname is the one   *)
(* stored in the active profile; an input without a scheme got https when  *)
(* the active profile's development flag is false and http when it is      *)
(* true, and an input with http or https kept its scheme.                  *)
C3_DefaultSchemeFollowsDevelopment ==
    Constructed =>
        LET h == last.hostname
            out == facade.session.hostname
            dev == getboolean(store, facade.profile_name, "development", FALSE)
        IN  /\ "hostname" \in DOMAIN store[facade.profile_name]
            /\ store[facade.profile_name]["hostname"] = out
            /\ Len(out) >= 4 /\ out[2] = ":" /\ out[3] = "/" /\ out[4] = "/"
            /\ IF NamesScheme(h) THEN out[1] = Lower(h[1])
               ELSE out[1] = (IF dev THEN "http" ELSE "https")

C3_Witness ==
    /\ Constructed
    /\ ~NamesScheme(last.hostname)
    /\ getboolean(store, facade.profile_name, "development", FALSE)
    /\ facade.session.hostname = <<"http", ":", "/", "/", "host">>

(* C4: save_token(t) with an active profile P and a config file leaves t's *)
(* access_token and refresh_token in section P of the file, and a facade   *)
(* constructed from that file with profile_name P and no token hands the   *)
(* session the access_token and refresh_token that section P of the file   *)
(* holds.                                                                  *)
C4_TokenRoundTrip ==
    /\ (SavedToken /\ has_profile(facade) /\ facade.config_file # None
        /\ {"access_token", "refresh_token"} \subseteq DOMAIN last.token)
       => /\ file.exists
          /\ facade.profile_name \in DOMAIN file.content
          /\ \A k \in {"access_token", "refresh_token"} :
                /\ k \in DOMAIN file.content[facade.profile_name]
                /\ file.content[facade.profile_name][k] = last.token[k]
    /\ (Constructed /\ last.config_file # None /\ last.name \in SectionNames
        /\ ~last.token_given /\ file.exists /\ last.name \in DOMAIN file.content)
       => \A k \in {"access_token", "refresh_token"} :
             k \in DOMAIN file.content[last.name]
             => /\ k \in DOMAIN facade.session.token
                /\ facade.session.token[k] = file.content[last.name][k]

C4_Witness ==
    /\ Constructed /\ last.config_file # None /\ ~last.token_given
    /\ ~last.provided
    /\ last.name = "p1"
    /\ "access_token" \in DOMAIN facade.session.token
    /\ facade.session.token["access_token"] = "a1"
    /\ facade.session.token["refresh_token"] = "r1"

(* C5: create_profile on a name whose section exists raises the            *)
(* duplicate-profile error and changes neither the store nor the active    *)
(* profile.                                                                *)
C5_DuplicateProfileLeavesStore ==
    [][ (last'.op = "create_profile" /\ last'.name \in DOMAIN store)
        => /\ last'.raised = "Profile already exists."
           /\ store' = store
           /\ facade' = facade ]_vars

C5_Witness ==
    /\ last.op = "create_profile"
    /\ last.raised = "Profile already exists."
    /\ "access_token" \in DOMAIN store[last.name]

(* C6: use_profile(name, create_profile=True) on a store without section   *)
(* name makes name an existing and the active profile, and it stays so on  *)
(* that facade until the next use_profile call.                            *)
C6_UseProfileCreatesAndActivates ==
    [][ /\ \A name \in SectionNames :
              (last'.op = "use_profile" /\ last'.create
               /\ last'.name = name /\ name \notin DOMAIN store)
              => (last'.raised = "" /\ Active(name)')
        /\ \A name \in SectionNames :
              (Active(name) /\ last'.op # "use_profile"
               /\ ~(last'.op = "construct" /\ last'.raised = ""))
              => Active(name)' ]_vars

C6_Witness ==
    /\ last.op = "use_profile" /\ last.create /\ last.created
    /\ Active(last.name)
    /\ facade.session.profile_name # last.name

(* C7: save_token writes the whole store to the file exactly when a        *)
(* config_file was configured; with no active profile it changes no        *)
(* section of the store.                                                   *)
C7_SaveTokenPersistence ==
    [][ SaveTokenStep
        => /\ last'.wrote <=> (facade.config_file # None)
           /\ IF facade.config_file # None
              THEN file' = [exists |-> TRUE, content |-> store']
              ELSE file' = file
           /\ ~has_profile(facade) => store' = store ]_vars

C7_Witness ==
    /\ SavedToken /\ last.wrote
    /\ ~has_profile(facade)
    /\ "access_token" \in DOMAIN last.token
    /\ file = [exists |-> TRUE, content |-> store]
    /\ \A s \in DOMAIN store : "access_token" \notin DOMAIN store[s]

(* C8: the insecure-transport flag is set by a construction exactly when   *)
(* it read development or oauthlib_insecure_transport as true, no other    *)
(* call changes it, and once set it stays set.                             *)
C8_InsecureTransportFlag ==
    [][ /\ environ => environ'
        /\ last'.op = "construct"
           => environ' = (environ \/ last'.development \/ last'.insecure)
        /\ last'.op # "construct" => environ' = environ ]_vars

C8_Witness ==
    /\ environ
    /\ Constructed
    /\ ~last.development /\ ~last.insecure
    /\ ~getboolean(store, facade.profile_name, "development", FALSE)
    /\ ~getboolean(store, facade.profile_name, "oauthlib_insecure_transport", FALSE)

(* C9: the token handed to the session never holds expires_at; a token     *)
(* that came with expires_at = T holds expires_in = T - now, negative      *)
(* values included, and its other fields as they came; a token without     *)
(* expires_at is handed over as it came.                                   *)
C9_TokenNormalization ==
    Constructed =>
        LET tok == facade.session.token
            P == facade.profile_name
            kept == {"access_token", "refresh_token"}
        IN  /\ "expires_at" \notin DOMAIN tok
            /\ last.token_given =>
                 IF "expires_at" \in DOMAIN last.token
                 THEN /\ DOMAIN tok = (DOMAIN last.token \ {"expires_at"})
                                      \cup {"expires_in"}
                      /\ tok["expires_in"] = last.token["expires_at"] - last.now
                      /\ \A k \in DOMAIN tok \ {"expires_in"} : tok[k] = last.token[k]
                 ELSE tok = last.token
            /\ (~last.token_given /\ has_profile(facade)) =>
                 /\ \A k \in kept :
                       IF HasOption(store, P, k)
                       THEN k \in DOMAIN tok /\ tok[k] = Option(store, P, k)
                       ELSE k \notin DOMAIN tok
                 /\ IF HasOption(store, P, "expires_at")
                    THEN /\ DOMAIN tok \subseteq kept \cup {"expires_in"}
                         /\ "expires_in" \in DOMAIN tok
                         /\ str(tok["expires_in"] + last.now)
                               = Option(store, P, "expires_at")
                    ELSE DOMAIN tok \subseteq kept
            /\ (~last.token_given /\ ~has_profile(facade)) => ~facade.session.has_token

C9_Witness ==
    /\ Constructed /\ ~last.token_given
    /\ "expires_in" \in DOMAIN facade.session.token
    /\ facade.session.token["expires_in"] < 0
    /\ "access_token" \in DOMAIN facade.session.token

(* C10: a construction that fails leaves the caller's config store and the *)
(* insecure-transport flag as they were before the call.                   *)
C10_FailedConstructionHasNoEffect ==
    [][ (last'.op = "construct" /\ last'.raised # "")
        => (store' = store /\ environ' = environ) ]_vars

====
